---- MODULE Spec2Model ----
(***************************************************************************)
(* FullyShardedPlugin (pytorch_lightning/plugins/training_type/            *)
(* fully_sharded.py): the strategy's constructor, its lazily created       *)
(* process group, the sharding scope and configure_ddp / pre_dispatch on   *)
(* every rank, the four step methods, checkpoint collation and the plugin  *)
(* registry presets.                                                       *)
(***************************************************************************)
EXTENDS Integers, Sequences, FiniteSets, TLC

\* ------------------------------------------------------------------ bounds
\* number of worker processes (ranks) launched by the setup specifications
NumProcs == 2
\* top-level calls (pre_dispatch, process_group reads) one rank makes
MaxCalls == 2
\* pieces a state-dict key is put together from; entries of a state dict
MaxKeyParts == 2
MaxEntries == 2

Procs == 1..NumProcs

\* Optional[bool] arguments: None, True, False
OptBool == {"None", "True", "False"}

\* Python truthiness of an Optional[bool]
Truthy(x) == x = "True"

VARIABLES
    fairscale_available, \* _FAIRSCALE_FULLY_SHARDED_AVAILABLE of the installation
    world,               \* the ranks that were launched
    args,                \* keyword arguments the script passes to the constructor
    user_nested,         \* the user's model already holds nested sharded submodules
    self,                \* per rank: the strategy instance's attributes
    pc,                  \* per rank: position of the rank's control
    raised,              \* per rank: exception the last top-level call raised
    pending,             \* per rank: exception in flight inside the with-block
    model,               \* per rank: self.model, the (possibly wrapped) handle
    scope_open,          \* per rank: enable_wrap scope entered and not exited
    log,                 \* per rank: external calls of the current top-level call
    ncalls,              \* per rank: setup calls made so far
    new_group_calls,     \* per rank: torch.distributed.new_group() calls so far
    next_handle,         \* next fresh group handle new_group() hands out
    pg_returned,         \* per rank: handles the process_group property returned
    pg_reads,            \* per rank: reads of the process_group property so far
    arrivals,            \* per rank: barrier() calls made
    passes,              \* per rank: barrier() calls returned
    configured,          \* per rank: configure_ddp runs completed in pre_dispatch
    checkpoint,          \* per rank: the caller's checkpoint mapping given to on_save
    state_dict,          \* per rank: the local state_dict of collate_state_dict
    op,                  \* per rank: the checkpoint method the rank is inside
    ret,                 \* per rank: what the last completed method returned
    registry,            \* the plugin registry register_plugins fills
    made                 \* result of the last instantiation of a registry preset

envVars == <<fairscale_available, world, args, user_nested>>
groupVars == <<new_group_calls, next_handle, pg_returned, pg_reads>>
barrierVars == <<arrivals, passes, configured>>
opsVars == <<checkpoint, state_dict, op, ret>>
regVars == <<registry, made>>

vars == <<envVars, self, pc, raised, pending, model, scope_open, log, ncalls,
          groupVars, barrierVars, opsVars, regVars>>

\* ------------------------------------------------------------- constructor
\* the keyword arguments of __init__ that the strategy stores
ArgSpace ==
    [cpu_offload: BOOLEAN, flatten_parameters: BOOLEAN,
     reshard_after_forward: BOOLEAN, move_grads_to_cpu: OptBool,
     fp32_reduce_scatter: OptBool, module_wrap: BOOLEAN,
     module_auto_wrap: BOOLEAN, sync_batchnorm: OptBool]

\* the signature's defaults
DefaultArgs ==
    [cpu_offload |-> FALSE, flatten_parameters |-> TRUE,
     reshard_after_forward |-> TRUE, move_grads_to_cpu |-> "None",
     fp32_reduce_scatter |-> "None", module_wrap |-> FALSE,
     module_auto_wrap |-> FALSE, sync_batchnorm |-> "None"]

\* nothing was returned yet; no preset was instantiated yet
NoReturn == [kind |-> "none"]
NothingMade == [name |-> "none"]

\* no strategy object exists
NoInstance == [exists |-> FALSE]

\* the user's module as built, before any conversion or wrapping
RawModel == [sync_bn |-> FALSE, lfsm |-> 0, fsdp |-> 0]

\* mutant: the wrap flags are not checked
WrapRejected_Off(a) == FALSE

\* the guard of line 110
WrapRejected(a) == a.module_wrap \/ a.module_auto_wrap

\* the attributes lines 115-126 store
NewInstance(a) ==
    [cpu_offload |-> a.cpu_offload,
     move_grads_to_cpu |-> a.move_grads_to_cpu,
     flatten_parameters |-> a.flatten_parameters,
     reshard_after_forward |-> a.reshard_after_forward,
     fp32_reduce_scatter |-> a.fp32_reduce_scatter,
     module_wrap |-> a.module_wrap,
     module_auto_wrap |-> a.module_auto_wrap,
     sync_batchnorm |-> a.sync_batchnorm,
     _process_group |-> 0]

\* __init__: the result of FullyShardedPlugin(**a)
InitResult(avail, a) ==
    IF ~avail THEN [exc |-> "MisconfigurationException", obj |-> NoInstance]
    ELSE IF WrapRejected(a)
         THEN [exc |-> "MisconfigurationException", obj |-> NoInstance]
         ELSE [exc |-> "none", obj |-> NewInstance(a)]

module_wrapped(s) == s.module_wrap \/ s.module_auto_wrap

Construct(p) ==
    /\ p \in world
    /\ pc[p] = "new"
    /\ LET r == InitResult(fairscale_available, args) IN
        /\ self' = [self EXCEPT ![p] = r.obj]
        /\ raised' = [raised EXCEPT ![p] = r.exc]
        /\ pc' = [pc EXCEPT ![p] = IF r.exc = "none" THEN "idle" ELSE "failed"]
    /\ UNCHANGED <<envVars, pending, model, scope_open, log, ncalls, groupVars,
                   barrierVars, opsVars, regVars>>

\* ----------------------------------------------------------- process_group
\* mutant: the memo is never consulted, every read creates a group
GroupIsNone_NoMemo(s) == TRUE

\* line 130: the memo is empty (None is modelled as handle 0)
GroupIsNone(s) == s._process_group = 0

\* the process_group property (lines 128-132), evaluated on rank p: creates the
\* group with torch.distributed.new_group() when the memo is empty, stores it,
\* and returns the memo
ReadProcessGroup(p) ==
    LET create == GroupIsNone(self[p])
        h == IF create THEN next_handle ELSE self[p]._process_group
    IN  /\ self' = [self EXCEPT ![p]._process_group = h]
        /\ new_group_calls' =
              [new_group_calls EXCEPT ![p] = @ + (IF create THEN 1 ELSE 0)]
        /\ next_handle' = next_handle + (IF create THEN 1 ELSE 0)
        /\ pg_returned' = [pg_returned EXCEPT ![p] = @ \cup {h}]
        /\ pg_reads' = [pg_reads EXCEPT ![p] = @ + 1]

\* some caller reads strategy.process_group while the rank is between calls
ProcessGroupAccess(p) ==
    /\ pc[p] = "idle"
    /\ ncalls[p] < MaxCalls
    /\ ncalls' = [ncalls EXCEPT ![p] = @ + 1]
    /\ ReadProcessGroup(p)
    /\ UNCHANGED <<envVars, pc, raised, pending, model, scope_open, log, barrierVars,
                   opsVars, regVars>>

\* --------------------------------------------- pre_dispatch / configure_ddp
\* line 182: if self.sync_batchnorm
SyncBatchnormSet(s) == Truthy(s.sync_batchnorm)

\* mutant: the barrier is called before configure_ddp
PreDispatchNext_BarrierFirst(at) ==
    CASE at = "call" -> "pd_sync_bn"
      [] at = "sync_batchnorm" -> "pd_barrier"
      [] at = "barrier" -> "cd_enter"
      [] at = "configure_ddp" -> "idle"

\* the statement order of pre_dispatch (lines 181-185): where control goes after
\* each of its statements
PreDispatchNext(at) ==
    CASE at = "call" -> "pd_sync_bn"
      [] at = "sync_batchnorm" -> "cd_enter"
      [] at = "configure_ddp" -> "pd_barrier"
      [] at = "barrier" -> "idle"

\* pre_dispatch is called (by the trainer) on rank p
CallPreDispatch(p) ==
    /\ pc[p] = "idle"
    /\ ncalls[p] < MaxCalls
    /\ ncalls' = [ncalls EXCEPT ![p] = @ + 1]
    /\ raised' = [raised EXCEPT ![p] = "none"]
    /\ log' = [log EXCEPT ![p] = <<>>]
    /\ pc' = [pc EXCEPT ![p] = PreDispatchNext("call")]
    /\ UNCHANGED <<envVars, self, pending, model, scope_open, groupVars, barrierVars,
                   opsVars, regVars>>

\* lines 182-183: the optional synchronized batch-norm conversion
SyncBatchnorm(p) ==
    /\ pc[p] = "pd_sync_bn"
    /\ IF SyncBatchnormSet(self[p])
       THEN /\ model' = [model EXCEPT ![p].sync_bn = TRUE]
            /\ log' = [log EXCEPT ![p] = Append(@, "configure_sync_batchnorm")]
       ELSE UNCHANGED <<model, log>>
    /\ pc' = [pc EXCEPT ![p] = PreDispatchNext("sync_batchnorm")]
    /\ UNCHANGED <<envVars, self, raised, pending, scope_open, ncalls, groupVars,
                   barrierVars, opsVars, regVars>>

\* model_sharded_context up to its yield (lines 140-158): the arguments of
\* enable_wrap are evaluated, self.process_group among them, and the scope is
\* entered
EnterShardedContext(p) ==
    /\ pc[p] = "cd_enter"
    /\ ReadProcessGroup(p)
    /\ scope_open' = [scope_open EXCEPT ![p] = TRUE]
    /\ log' = [log EXCEPT ![p] = Append(@, "enable_wrap.enter")]
    /\ pc' = [pc EXCEPT ![p] = "cd_body"]
    /\ UNCHANGED <<envVars, raised, pending, model, ncalls, barrierVars, opsVars,
                   regVars>>

\* line 215-219: some module of self.model is a FullyShardedDataParallel
ModelHasNestedFsdp(m, nested) == nested \/ m.fsdp > 0

\* lines 163-168: the wrapping branch configure_ddp takes
WrapBranch(s, m, nested) ==
    IF s.module_auto_wrap /\ ~ModelHasNestedFsdp(m, nested) THEN "auto_wrap"
    ELSE IF s.module_wrap THEN "wrap"
    ELSE "none"

\* external: whether a wrapping call of the with-block can raise. It can only
\* when one is made
BodyOutcomes(b) == IF b = "none" THEN {"returns"} ELSE {"returns", "raises"}

\* the body of the with-block (lines 163-168): the model is wrapped as the branch
\* says, or the wrapping call (auto_wrap or wrap, external) raises; root_is_fsdp
\* is whether auto_wrap returned a FullyShardedDataParallel
WrapModel(p) ==
    /\ pc[p] = "cd_body"
    /\ LET b == WrapBranch(self[p], model[p], user_nested) IN
       \E outcome \in BodyOutcomes(b) :
       \E root_is_fsdp \in (IF b = "auto_wrap" /\ outcome = "returns"
                             THEN BOOLEAN ELSE {TRUE}) :
         /\ pending' = [pending EXCEPT ![p] =
                           IF outcome = "raises" THEN "WrapError" ELSE "none"]
         /\ CASE outcome = "raises" ->
                  /\ log' = [log EXCEPT ![p] = Append(@, b)]
                  /\ UNCHANGED model
              [] outcome = "returns" /\ b = "auto_wrap" ->
                  /\ model' = [model EXCEPT ![p].lfsm = @ + 1, ![p].fsdp = @ + 1]
                  /\ log' = [log EXCEPT ![p] =
                                IF root_is_fsdp THEN Append(@, "auto_wrap")
                                ELSE Append(Append(@, "auto_wrap"), "wrap")]
              [] outcome = "returns" /\ b = "wrap" ->
                  /\ model' = [model EXCEPT ![p].lfsm = @ + 1, ![p].fsdp = @ + 1]
                  /\ log' = [log EXCEPT ![p] = Append(@, "wrap")]
              [] outcome = "returns" /\ b = "none" -> UNCHANGED <<model, log>>
    /\ pc' = [pc EXCEPT ![p] = "cd_exit"]
    /\ UNCHANGED <<envVars, self, raised, scope_open, ncalls, groupVars, barrierVars,
                   opsVars, regVars>>

\* mutant: the scope is exited only when the block returns normally
ScopeExited_NormalOnly(pend) == pend = "none"

\* the with statement of line 146 around the yield of a contextmanager generator:
\* enable_wrap's scope is exited whether the block returned or raised
ScopeExited(pend) == TRUE

\* control leaves the with-block of configure_ddp (line 162): the scope is exited;
\* an exception in flight leaves configure_ddp (and pre_dispatch) with it
ExitShardedContext(p) ==
    /\ pc[p] = "cd_exit"
    /\ IF ScopeExited(pending[p])
       THEN /\ scope_open' = [scope_open EXCEPT ![p] = FALSE]
            /\ log' = [log EXCEPT ![p] = Append(@, "enable_wrap.exit")]
       ELSE UNCHANGED <<scope_open, log>>
    /\ IF pending[p] = "none"
       THEN /\ pc' = [pc EXCEPT ![p] = "cd_move"]
            /\ UNCHANGED raised
       ELSE /\ pc' = [pc EXCEPT ![p] = "idle"]
            /\ raised' = [raised EXCEPT ![p] = pending[p]]
    /\ pending' = [pending EXCEPT ![p] = "none"]
    /\ UNCHANGED <<envVars, self, model, ncalls, groupVars, barrierVars, opsVars,
                   regVars>>

\* mutant: the model is moved whatever cpu_offload says
MovesToDevice_Always(s) == TRUE

\* line 170: if not self.cpu_offload
MovesToDevice(s) == ~s.cpu_offload

\* lines 170-172 and model_to_device (176-179)
ModelToDevice(p) ==
    /\ pc[p] = "cd_move"
    /\ IF MovesToDevice(self[p])
       THEN log' = [log EXCEPT ![p] =
                       Append(Append(@, "model.to"), "lightning_module.to")]
       ELSE UNCHANGED log
    /\ pc' = [pc EXCEPT ![p] = "cd_opt"]
    /\ UNCHANGED <<envVars, self, raised, pending, model, scope_open, ncalls, groupVars,
                   barrierVars, opsVars, regVars>>

\* line 174, then configure_ddp returns to its caller
SetupOptimizers(p) ==
    /\ pc[p] = "cd_opt"
    /\ log' = [log EXCEPT ![p] = Append(@, "setup_optimizers")]
    /\ pc' = [pc EXCEPT ![p] = PreDispatchNext("configure_ddp")]
    /\ configured' = [configured EXCEPT ![p] = @ + 1]
    /\ UNCHANGED <<envVars, self, raised, pending, model, scope_open, ncalls, groupVars,
                   arrivals, passes, opsVars, regVars>>

\* the collective barrier: a rank's call returns once every launched rank has
\* made as many barrier calls as it has
BarrierComplete(p) == \A q \in world : arrivals[q] >= arrivals[p]

\* line 185: the rank calls self.barrier()
BarrierCall(p) ==
    /\ pc[p] = "pd_barrier"
    /\ arrivals' = [arrivals EXCEPT ![p] = @ + 1]
    /\ log' = [log EXCEPT ![p] = Append(@, "barrier")]
    /\ pc' = [pc EXCEPT ![p] = "pd_wait"]
    /\ UNCHANGED <<envVars, self, raised, pending, model, scope_open, ncalls, groupVars,
                   passes, configured, opsVars, regVars>>

\* the barrier call returns and pre_dispatch goes on to its next statement
BarrierReturn(p) ==
    /\ pc[p] = "pd_wait"
    /\ BarrierComplete(p)
    /\ passes' = [passes EXCEPT ![p] = @ + 1]
    /\ pc' = [pc EXCEPT ![p] = PreDispatchNext("barrier")]
    /\ UNCHANGED <<envVars, self, raised, pending, model, scope_open, log, ncalls,
                   groupVars, arrivals, configured, opsVars, regVars>>

\* ------------------------------------------------------ setup specification
\* nothing has run yet
InitIdle ==
    /\ raised = [p \in Procs |-> "none"]
    /\ pending = [p \in Procs |-> "none"]
    /\ model = [p \in Procs |-> RawModel]
    /\ scope_open = [p \in Procs |-> FALSE]
    /\ log = [p \in Procs |-> <<>>]
    /\ ncalls = [p \in Procs |-> 0]
    /\ new_group_calls = [p \in Procs |-> 0]
    /\ next_handle = 1
    /\ pg_returned = [p \in Procs |-> {}]
    /\ pg_reads = [p \in Procs |-> 0]
    /\ arrivals = [p \in Procs |-> 0]
    /\ passes = [p \in Procs |-> 0]
    /\ configured = [p \in Procs |-> 0]
    /\ checkpoint = [p \in Procs |-> <<>>]
    /\ state_dict = [p \in Procs |-> <<>>]
    /\ op = [p \in Procs |-> "none"]
    /\ ret = [p \in Procs |-> NoReturn]
    /\ registry = {}
    /\ made = NothingMade

\* the launch: no rank has constructed its strategy yet
InitCommon ==
    /\ InitIdle
    /\ fairscale_available \in BOOLEAN
    /\ self = [p \in Procs |-> NoInstance]
    /\ pc = [p \in Procs |-> "new"]

\* the arguments the setup specifications pass: the flags the setup reads vary,
\* the others keep their defaults
SetupArgs ==
    {a \in ArgSpace : /\ a.flatten_parameters = DefaultArgs.flatten_parameters
                      /\ a.reshard_after_forward = DefaultArgs.reshard_after_forward
                      /\ a.move_grads_to_cpu = DefaultArgs.move_grads_to_cpu
                      /\ a.fp32_reduce_scatter = DefaultArgs.fp32_reduce_scatter}

\* every rank runs the same script with the same arguments; the nested-module
\* test of line 163 is only evaluated under module_auto_wrap, which no
\* constructed strategy has, so the launch fixes its answer
Init ==
    /\ InitCommon
    /\ user_nested = FALSE
    /\ world = Procs
    /\ args \in SetupArgs

SetupStep(p) ==
    \/ Construct(p)
    \/ ProcessGroupAccess(p)
    \/ CallPreDispatch(p)
    \/ SyncBatchnorm(p)
    \/ EnterShardedContext(p)
    \/ WrapModel(p)
    \/ ExitShardedContext(p)
    \/ ModelToDevice(p)
    \/ SetupOptimizers(p)
    \/ BarrierCall(p)
    \/ BarrierReturn(p)

Next == \E p \in Procs : SetupStep(p)

Spec == Init /\ [][Next]_vars

\* a strategy object whose wrap attributes were assigned after construction:
\* module_wrap and module_auto_wrap are plain instance attributes that
\* configure_ddp, collate_state_dict and the step methods read on every call
AttrInstance(a, mw, maw) ==
    [NewInstance(a) EXCEPT !.module_wrap = mw, !.module_auto_wrap = maw]

\* one launched rank holding a strategy object with any values of its attributes
InitAnyAttrs ==
    /\ InitIdle
    /\ user_nested \in BOOLEAN
    /\ world = {1}
    /\ fairscale_available = TRUE
    /\ args \in {a \in SetupArgs : ~WrapRejected(a)}
    /\ \E mw \in BOOLEAN, maw \in BOOLEAN :
         /\ self = [p \in Procs |-> IF p = 1 THEN AttrInstance(args, mw, maw)
                                    ELSE NoInstance]
         /\ pc = [p \in Procs |-> IF p = 1 THEN "idle" ELSE "new"]

\* one rank, from the launch or from a strategy object with any attribute values
InitAttrs ==
    \/ /\ InitCommon
       /\ user_nested \in BOOLEAN
       /\ world = {1}
       /\ args \in SetupArgs
    \/ InitAnyAttrs

SpecAttrs == InitAttrs /\ [][Next]_vars

\* ------------------------------------------------------------ step methods
\* the call a step method makes (lines 234-252): the base strategy's method when
\* the whole module is wrapped, else the same-named method of self.model
training_step(s, a) ==
    IF module_wrapped(s)
    THEN [target |-> "super", method |-> "training_step", args |-> a]
    ELSE [target |-> "model", method |-> "training_step", args |-> a]

\* mutant: the direct path calls the training method
validation_step_Training(s, a) ==
    IF module_wrapped(s)
    THEN [target |-> "super", method |-> "validation_step", args |-> a]
    ELSE [target |-> "model", method |-> "training_step", args |-> a]

validation_step(s, a) ==
    IF module_wrapped(s)
    THEN [target |-> "super", method |-> "validation_step", args |-> a]
    ELSE [target |-> "model", method |-> "validation_step", args |-> a]

test_step(s, a) ==
    IF module_wrapped(s)
    THEN [target |-> "super", method |-> "test_step", args |-> a]
    ELSE [target |-> "model", method |-> "test_step", args |-> a]

predict_step(s, a) ==
    IF module_wrapped(s)
    THEN [target |-> "super", method |-> "predict_step", args |-> a]
    ELSE [target |-> "model", method |-> "predict_step", args |-> a]

\* the positional arguments a step is called with: (batch, batch_idx)
StepArgs == {<<"batch_a", 0>>, <<"batch_b", 1>>}

\* what the callee of call c returns (opaque to the strategy)
ResultOf(c) == [returned_by |-> c]

\* a step method ran on rank p: it made the calls cs and returned the last result
StepReturn(p, name, a, cs) ==
    /\ pc[p] = "idle"
    /\ ret' = [ret EXCEPT ![p] = [kind |-> "step", method |-> name, args |-> a,
                                  calls |-> cs, value |-> ResultOf(cs[Len(cs)])]]

CallTrainingStep(p) ==
    /\ \E a \in StepArgs :
         StepReturn(p, "training_step", a, <<training_step(self[p], a)>>)
    /\ UNCHANGED <<envVars, self, pc, raised, pending, model, scope_open, log, ncalls,
                   groupVars, barrierVars, checkpoint, state_dict, op, regVars>>

CallValidationStep(p) ==
    /\ \E a \in StepArgs :
         StepReturn(p, "validation_step", a, <<validation_step(self[p], a)>>)
    /\ UNCHANGED <<envVars, self, pc, raised, pending, model, scope_open, log, ncalls,
                   groupVars, barrierVars, checkpoint, state_dict, op, regVars>>

CallTestStep(p) ==
    /\ \E a \in StepArgs :
         StepReturn(p, "test_step", a, <<test_step(self[p], a)>>)
    /\ UNCHANGED <<envVars, self, pc, raised, pending, model, scope_open, log, ncalls,
                   groupVars, barrierVars, checkpoint, state_dict, op, regVars>>

CallPredictStep(p) ==
    /\ \E a \in StepArgs :
         StepReturn(p, "predict_step", a, <<predict_step(self[p], a)>>)
    /\ UNCHANGED <<envVars, self, pc, raised, pending, model, scope_open, log, ncalls,
                   groupVars, barrierVars, checkpoint, state_dict, op, regVars>>

\* ------------------------------------------------- checkpoint collation
\* the literal 'module.' of line 207, as its characters
ModulePrefix == <<"m", "o", "d", "u", "l", "e", ".">>

\* s[i..] starts with sep
StartsAt(s, sep, i) ==
    /\ i + Len(sep) - 1 <= Len(s)
    /\ SubSeq(s, i, i + Len(sep) - 1) = sep

\* str.partition(sep): (head, sep, tail) around the first occurrence of sep, or
\* (s, '', '') when sep does not occur
Partition(s, sep) ==
    LET hits == {i \in 1..Len(s) : StartsAt(s, sep, i)} IN
    IF hits = {} THEN <<s, <<>>, <<>>>>
    ELSE LET i == CHOOSE h \in hits : \A g \in hits : h <= g IN
         <<SubSeq(s, 1, i - 1), sep, SubSeq(s, i + Len(sep), Len(s))>>

\* mutant: str.rpartition, which splits around the last occurrence
StripKey_Last(k) ==
    LET hits == {i \in 1..Len(k) : StartsAt(k, ModulePrefix, i)} IN
    IF hits = {} THEN k
    ELSE LET i == CHOOSE h \in hits : \A g \in hits : h >= g IN
         SubSeq(k, i + Len(ModulePrefix), Len(k))

\* line 207: k.partition('module.')[2]
StripKey(k) == Partition(k, ModulePrefix)[3]

\* d[k] = v on a dict kept as its items in insertion order
DictSet(d, k, v) ==
    IF \E i \in 1..Len(d) : d[i].k = k
    THEN [i \in 1..Len(d) |-> IF d[i].k = k THEN [k |-> k, v |-> v] ELSE d[i]]
    ELSE Append(d, [k |-> k, v |-> v])

\* the dict comprehension of line 207 over the items of d from the i-th on
RECURSIVE Rekey(_, _, _)
Rekey(d, i, acc) ==
    IF i > Len(d) THEN acc
    ELSE Rekey(d, i + 1, DictSet(acc, StripKey(d[i].k), d[i].v))

\* lines 204-208: what collate_state_dict returns for the fetched state dict
Collated(s, sd) == IF module_wrapped(s) THEN Rekey(sd, 1, <<>>) ELSE sd

\* checkpoint['state_dict'] = state_dict on a mapping
MapSet(ck, k, v) == [x \in DOMAIN ck \cup {k} |-> IF x = k THEN v ELSE ck[x]]

\* the state-dict keys the model may hold: one to MaxKeyParts pieces, each
\* 'module.' or 'w'
KeyPieces == {ModulePrefix, <<"w">>}

RECURSIVE KeysOf(_)
KeysOf(n) ==
    IF n = 0 THEN {<<>>}
    ELSE KeysOf(n - 1) \cup {k \o q : k \in KeysOf(n - 1), q \in KeyPieces}

StateDictKeys == KeysOf(MaxKeyParts) \ {<<>>}

\* what self.model.state_dict() may return: up to MaxEntries items with distinct
\* keys, the i-th holding tensor i
StateDicts ==
    LET keyseqs == UNION {[1..n -> StateDictKeys] : n \in 0..MaxEntries}
        distinct(ks) == \A i, j \in 1..Len(ks) : ks[i] = ks[j] => i = j
    IN  {[i \in 1..Len(ks) |-> [k |-> ks[i], v |-> i]] :
            ks \in {x \in keyseqs : distinct(x)}}

\* the checkpoint mappings the trainer hands to on_save
Checkpoints ==
    {[epoch |-> 1],
     [epoch |-> 1, state_dict |-> <<>>],
     [epoch |-> 2, state_dict |-> <<[k |-> <<"w">>, v |-> 9]>>,
      global_step |-> 5]}

\* on_save(checkpoint) is called on rank p (line 191)
CallOnSave(p) ==
    /\ pc[p] = "idle"
    /\ \E ck \in Checkpoints : checkpoint' = [checkpoint EXCEPT ![p] = ck]
    /\ op' = [op EXCEPT ![p] = "on_save"]
    /\ ret' = [ret EXCEPT ![p] = NoReturn]
    /\ raised' = [raised EXCEPT ![p] = "none"]
    /\ pc' = [pc EXCEPT ![p] = "cs_fetch"]
    /\ UNCHANGED <<envVars, self, pending, model, scope_open, log, ncalls, groupVars,
                   barrierVars, state_dict, regVars>>

\* collate_state_dict() is called on its own on rank p
CallCollateStateDict(p) ==
    /\ pc[p] = "idle"
    /\ op' = [op EXCEPT ![p] = "collate_state_dict"]
    /\ ret' = [ret EXCEPT ![p] = NoReturn]
    /\ raised' = [raised EXCEPT ![p] = "none"]
    /\ pc' = [pc EXCEPT ![p] = "cs_fetch"]
    /\ UNCHANGED <<envVars, self, pending, model, scope_open, log, ncalls, groupVars,
                   barrierVars, checkpoint, state_dict, regVars>>

\* lines 201-203: the state dict is fetched from the model and pdb.set_trace()
\* suspends the process at the debugger prompt
FetchStateDict(p) ==
    /\ pc[p] = "cs_fetch"
    /\ \E sd \in StateDicts : state_dict' = [state_dict EXCEPT ![p] = sd]
    /\ pc' = [pc EXCEPT ![p] = "cs_pdb"]
    /\ UNCHANGED <<envVars, self, raised, pending, model, scope_open, log, ncalls,
                   groupVars, barrierVars, checkpoint, op, ret, regVars>>

\* somebody at the terminal tells the debugger to continue
DebuggerContinue(p) ==
    /\ pc[p] = "cs_pdb"
    /\ pc' = [pc EXCEPT ![p] = "cs_strip"]
    /\ UNCHANGED <<envVars, self, raised, pending, model, scope_open, log, ncalls,
                   groupVars, barrierVars, opsVars, regVars>>

\* the debugger is quit (or its input ends): BdbQuit leaves the call
DebuggerQuit(p) ==
    /\ pc[p] = "cs_pdb"
    /\ raised' = [raised EXCEPT ![p] = "BdbQuit"]
    /\ state_dict' = [state_dict EXCEPT ![p] = <<>>]
    /\ checkpoint' = [checkpoint EXCEPT ![p] = <<>>]
    /\ op' = [op EXCEPT ![p] = "none"]
    /\ pc' = [pc EXCEPT ![p] = "idle"]
    /\ UNCHANGED <<envVars, self, pending, model, scope_open, log, ncalls, groupVars,
                   barrierVars, ret, regVars>>

\* lines 204-208, and for on_save lines 193-194: the collated dict is returned, or
\* stored under 'state_dict' in the caller's mapping, which is returned
FinishCollate(p) ==
    /\ pc[p] = "cs_strip"
    /\ LET out == Collated(self[p], state_dict[p]) IN
       ret' = [ret EXCEPT ![p] =
                 IF op[p] = "on_save"
                 THEN [kind |-> "checkpoint", given |-> checkpoint[p],
                       fetched |-> state_dict[p],
                       value |-> MapSet(checkpoint[p], "state_dict", out)]
                 ELSE [kind |-> "state_dict", fetched |-> state_dict[p],
                       value |-> out]]
    /\ state_dict' = [state_dict EXCEPT ![p] = <<>>]
    /\ checkpoint' = [checkpoint EXCEPT ![p] = <<>>]
    /\ op' = [op EXCEPT ![p] = "none"]
    /\ pc' = [pc EXCEPT ![p] = "idle"]
    /\ UNCHANGED <<envVars, self, raised, pending, model, scope_open, log, ncalls,
                   groupVars, barrierVars, regVars>>

\* ------------------------------------------------------- plugin registry
\* the three registrations of register_plugins (lines 223-232): the name, the
\* class and the keyword overrides stored with it
PresetFsdp ==
    [name |-> "fsdp", cls |-> "FullyShardedPlugin",
     init_params |-> [module_wrap |-> TRUE]]
PresetFsdpAutoWrap ==
    [name |-> "fsdp_auto_wrap", cls |-> "FullyShardedPlugin",
     init_params |-> [module_auto_wrap |-> TRUE]]
PresetFsdpManual ==
    [name |-> "fsdp_manual", cls |-> "FullyShardedPlugin", init_params |-> <<>>]

\* plugin_registry.register(name, cls, **init_params): the catalog keeps one
\* entry per name
Register(reg, e) == {x \in reg : x.name # e.name} \cup {e}

\* register_plugins (lines 221-232): the three registrations in order
RegisterPlugins ==
    /\ registry' = Register(Register(Register(registry, PresetFsdp),
                                     PresetFsdpAutoWrap), PresetFsdpManual)
    /\ UNCHANGED <<envVars, self, pc, raised, pending, model, scope_open, log, ncalls,
                   groupVars, barrierVars, opsVars, made>>

\* cls(**init_params): the signature's defaults with the overrides applied
WithOverrides(kw) ==
    [f \in DOMAIN DefaultArgs |-> IF f \in DOMAIN kw THEN kw[f] ELSE DefaultArgs[f]]

\* a preset is looked up by name and instantiated with its stored overrides
InstantiatePreset(n) ==
    /\ \E e \in registry :
         /\ e.name = n
         /\ made' = [name |-> n, init_params |-> e.init_params,
                     result |-> InitResult(fairscale_available,
                                           WithOverrides(e.init_params))]
    /\ UNCHANGED <<envVars, self, pc, raised, pending, model, scope_open, log, ncalls,
                   groupVars, barrierVars, opsVars, registry>>

PresetNames == {"fsdp", "fsdp_auto_wrap", "fsdp_manual"}

\* ------------------------------------------------ constructor specification
\* one process; the constructor is given every combination of its flags
InitCtor ==
    /\ InitCommon
    /\ user_nested = FALSE
    /\ world = {1}
    /\ args \in ArgSpace

NextCtor ==
    \/ \E p \in Procs : Construct(p)
    \/ RegisterPlugins
    \/ \E n \in PresetNames : InstantiatePreset(n)

SpecCtor == InitCtor /\ [][NextCtor]_vars

\* ------------------------------------------------- operation specifications
\* the arguments the operation specifications pass: only the wrap flags vary
OpsArgs ==
    {a \in ArgSpace : \A f \in DOMAIN a \ {"module_wrap", "module_auto_wrap"} :
                         a[f] = DefaultArgs[f]}

\* one process that constructs its strategy and then runs steps and checkpoints
InitOps ==
    /\ InitCommon
    /\ user_nested = FALSE
    /\ world = {1}
    /\ args \in OpsArgs

\* the same, or a strategy object with any values of its wrap attributes
InitOpsAttrs ==
    \/ InitOps
    \/ /\ InitIdle
       /\ fairscale_available = TRUE
       /\ user_nested = FALSE
       /\ world = {1}
       /\ args = DefaultArgs
       /\ \E mw \in BOOLEAN, maw \in BOOLEAN :
            /\ self = [p \in Procs |-> IF p = 1 THEN AttrInstance(args, mw, maw)
                                       ELSE NoInstance]
            /\ pc = [p \in Procs |-> IF p = 1 THEN "idle" ELSE "new"]

OpsStep(p) ==
    \/ Construct(p)
    \/ CallTrainingStep(p)
    \/ CallValidationStep(p)
    \/ CallTestStep(p)
    \/ CallPredictStep(p)
    \/ CallOnSave(p)
    \/ CallCollateStateDict(p)
    \/ FetchStateDict(p)
    \/ DebuggerContinue(p)
    \/ DebuggerQuit(p)
    \/ FinishCollate(p)

NextOps == \E p \in Procs : OpsStep(p)

SpecOps == InitOps /\ [][NextOps]_vars

SpecOpsAttrs == InitOpsAttrs /\ [][NextOps]_vars

\* ------------------------------------------------------------------ claims
\* e occurs in the call log l; how often; every a precedes every b
Has(l, e) == \E i \in 1..Len(l) : l[i] = e
Count(l, e) == Cardinality({i \in 1..Len(l) : l[i] = e})
Before(l, a, b) == \A i, j \in 1..Len(l) : (l[i] = a /\ l[j] = b) => i < j

\* C3: on every rank pre_dispatch runs the batch-norm conversion (only when
\* sync_batchnorm is set), then configure_ddp (the sharded context, then the
\* optimizer setup), then the barrier; and no rank has returned from its k-th
\* barrier before every launched rank completed its k-th configure_ddp.
C3_BarrierAfterSetup ==
    \A p \in Procs :
      LET l == log[p] IN
        /\ Before(l, "configure_sync_batchnorm", "enable_wrap.enter")
        /\ Before(l, "enable_wrap.enter", "enable_wrap.exit")
        /\ Before(l, "enable_wrap.exit", "setup_optimizers")
        /\ Before(l, "setup_optimizers", "barrier")
        /\ Has(l, "barrier") => Has(l, "setup_optimizers")
        /\ Has(l, "setup_optimizers") => Has(l, "enable_wrap.exit")
        /\ Has(l, "enable_wrap.enter") =>
             (Has(l, "configure_sync_batchnorm") <=> SyncBatchnormSet(self[p]))
        /\ \A q \in world : passes[p] <= configured[q]

\* C3 witness: several ranks, one converted its batch norm and is past the barrier
C3_Witness ==
    \E p \in world, q \in world :
        /\ p # q
        /\ passes[p] >= 1
        /\ Has(log[p], "configure_sync_batchnorm")
        /\ configured[q] >= 1

\* C4: the group is created at most once per strategy: new_group() has been
\* called exactly once as soon as process_group was read, never before, and every
\* read returned the one memoized handle.
C4_GroupCreatedOnce ==
    \A p \in Procs :
        /\ new_group_calls[p] = (IF pg_reads[p] > 0 THEN 1 ELSE 0)
        /\ Cardinality(pg_returned[p]) <= 1
        /\ pg_reads[p] > 0 =>
             /\ self[p]._process_group # 0
             /\ pg_returned[p] = {self[p]._process_group}

\* C4 witness: a rank read the group directly and again inside pre_dispatch
C4_Witness ==
    \E p \in world : pg_reads[p] >= 2 /\ passes[p] >= 1

\* C8: the sharding scope is open only inside the with-block; when a wrapping
\* call raised, the scope was exited, the same error left the call, and neither
\* the device move nor the optimizer setup nor the barrier was performed.
C8_ScopeClosedOnEveryPath ==
    \A p \in Procs :
      LET l == log[p] IN
        /\ scope_open[p] => pc[p] \in {"cd_body", "cd_exit"}
        /\ Count(l, "enable_wrap.enter") - Count(l, "enable_wrap.exit")
             = (IF scope_open[p] THEN 1 ELSE 0)
        /\ pending[p] # "none" => pc[p] = "cd_exit"
        /\ raised[p] = "WrapError" =>
             /\ pc[p] = "idle"
             /\ l[Len(l)] = "enable_wrap.exit"
             /\ ~Has(l, "model.to") /\ ~Has(l, "lightning_module.to")
             /\ ~Has(l, "setup_optimizers") /\ ~Has(l, "barrier")

\* C8 witness: a wrapping call raised and the call has returned to its caller
C8_Witness ==
    \E p \in world : raised[p] = "WrapError" /\ ~scope_open[p] /\ pc[p] = "idle"

\* C9: no device move is made under cpu_offload; without it the model and then
\* the lightning module are moved once, after the scope closed and before the
\* optimizer setup; a completed configure_ddp set the optimizers up exactly
\* once, after the wrapping.
C9_DeviceMoveIffNoOffload ==
    \A p \in Procs :
      LET l == log[p]
          moves == IF self[p].cpu_offload THEN 0 ELSE 1
      IN  /\ Has(l, "model.to") \/ Has(l, "lightning_module.to") =>
                ~self[p].cpu_offload
          /\ pc[p] \in {"pd_barrier", "pd_wait"} => Has(l, "setup_optimizers")
          /\ Has(l, "setup_optimizers") =>
                /\ Count(l, "setup_optimizers") = 1
                /\ Count(l, "model.to") = moves
                /\ Count(l, "lightning_module.to") = moves
                /\ Before(l, "enable_wrap.exit", "model.to")
                /\ Before(l, "model.to", "lightning_module.to")
                /\ Before(l, "lightning_module.to", "setup_optimizers")
                /\ Before(l, "auto_wrap", "setup_optimizers")
                /\ Before(l, "wrap", "setup_optimizers")
                /\ Before(l, "enable_wrap.exit", "setup_optimizers")

\* C9 witness: configure_ddp completed under cpu_offload on a constructed strategy
C9_Witness ==
    \E p \in world :
        /\ pc[p] = "pd_wait"
        /\ self[p].cpu_offload
        /\ ~module_wrapped(self[p])
        /\ Has(log[p], "setup_optimizers")

\* C1: with module_wrap and module_auto_wrap both true the constructor raises
\* MisconfigurationException and produces no strategy, whatever the other flags.
C1_BothWrapFlagsRejected ==
    \A p \in Procs :
        (args.module_wrap /\ args.module_auto_wrap /\ pc[p] # "new") =>
            /\ pc[p] = "failed"
            /\ raised[p] = "MisconfigurationException"
            /\ self[p] = NoInstance

\* C1 witness: the dependency is installed, both wrap flags and other non-default
\* flags were passed, and the constructor has run
C1_Witness ==
    \E p \in world :
        /\ fairscale_available
        /\ args.module_wrap /\ args.module_auto_wrap
        /\ args.cpu_offload /\ ~args.flatten_parameters
        /\ args.move_grads_to_cpu = "True" /\ args.sync_batchnorm = "True"
        /\ pc[p] = "failed"

\* C2: with the dependency installed the constructor fails exactly when both
\* wrap flags are true; otherwise the strategy carries the flags as passed.
C2_OnlyBothFlagsRejected ==
    \A p \in Procs :
        (fairscale_available /\ pc[p] # "new") =>
            /\ pc[p] = "failed" <=> (args.module_wrap /\ args.module_auto_wrap)
            /\ pc[p] # "failed" =>
                 /\ self[p].module_wrap = args.module_wrap
                 /\ self[p].module_auto_wrap = args.module_auto_wrap

\* C10: register_plugins leaves exactly the three presets in an empty registry,
\* and every preset, instantiated with its overrides, yields a strategy
\* configured with them.
C10_PresetsResolvable ==
    /\ registry # {} =>
         registry = {PresetFsdp, PresetFsdpAutoWrap, PresetFsdpManual}
    /\ (fairscale_available /\ made # NothingMade) =>
         /\ made.result.exc = "none"
         /\ made.result.obj = NewInstance(WithOverrides(made.init_params))

\* C5: on_save returns the caller's mapping with 'state_dict' set to the collated
\* state dict and every other entry unchanged, and no call of on_save or
\* collate_state_dict ever halts waiting for somebody outside the program.
C5_OnSaveReturnsWithoutHalting ==
    \A p \in Procs :
        /\ pc[p] # "cs_pdb"
        /\ ret[p].kind = "checkpoint" =>
             LET r == ret[p] IN
               /\ DOMAIN r.value = DOMAIN r.given \cup {"state_dict"}
               /\ r.value["state_dict"] = Collated(self[p], r.fetched)
               /\ \A x \in DOMAIN r.given \ {"state_dict"} : r.value[x] = r.given[x]

\* every key of the state dict d starts with 'module.'
AllPrefixed(d) == \A i \in 1..Len(d) : StartsAt(d[i].k, ModulePrefix, 1)

\* C6: on a whole-module-wrapped strategy collate_state_dict, given a state dict
\* whose keys all are 'module.' + k, returns as many items, the i-th keyed k
\* (nothing but the leading prefix removed) and holding the i-th input value,
\* with no two keys the same.
C6_PrefixStripped ==
    \A p \in Procs :
        (/\ ret[p].kind = "state_dict"
         /\ module_wrapped(self[p])
         /\ AllPrefixed(ret[p].fetched)) =>
            LET in == ret[p].fetched
                out == ret[p].value
            IN  /\ Len(out) = Len(in)
                /\ \A i \in 1..Len(in) :
                      /\ in[i].k = ModulePrefix \o out[i].k
                      /\ out[i].v = in[i].v
                /\ \A i, j \in 1..Len(out) : out[i].k = out[j].k => i = j

\* C6 witness: a wrapped strategy collated two prefixed keys, one of them
\* 'module.module.'
C6_Witness ==
    \E p \in world :
        /\ ret[p].kind = "state_dict"
        /\ module_wrapped(self[p])
        /\ AllPrefixed(ret[p].fetched)
        /\ Len(ret[p].fetched) >= 2
        /\ \E i \in 1..Len(ret[p].fetched) :
              ret[p].fetched[i].k = ModulePrefix \o ModulePrefix

\* C7: every step method makes exactly one call with the arguments it was given
\* and returns that call's result: the base strategy's method of the same name
\* when the whole module is wrapped, else the model's method of the same name.
C7_StepDispatch ==
    \A p \in Procs :
        ret[p].kind = "step" =>
            LET r == ret[p] IN
              /\ Len(r.calls) = 1
              /\ r.calls[1] = [target |-> IF module_wrapped(self[p])
                                          THEN "super" ELSE "model",
                               method |-> r.method, args |-> r.args]
              /\ r.value = ResultOf(r.calls[1])

\* C7 witness: a validation step went through the base strategy
C7_Witness ==
    \E p \in world :
        /\ ret[p].kind = "step"
        /\ ret[p].method = "validation_step"
        /\ module_wrapped(self[p])
        /\ ret[p].calls[1].target = "super"

====
